---- MODULE Spec2Model ----
(***************************************************************************)
(* Model of the lion router: the tree of Router objects built by New,      *)
(* Group and Mount, the composition of middlewares into handlers, named    *)
(* middlewares, the matcher adapter, the pooled per-request context and    *)
(* ServeHTTPC.                                                              *)
(*                                                                          *)
(* Strings that the code inspects character by character (patterns) are    *)
(* sequences of one-character strings: "/a" is <<"/", "a">>, "" is <<>>.    *)
(* A Handler value is the handler a composition produced:                   *)
(*   <<"h", H>>            the terminal handler H                           *)
(*   <<"mw", M, next>>     middleware M wrapped around the handler next     *)
(***************************************************************************)
EXTENDS Integers, Sequences, FiniteSets, TLC

VARIABLES
    routers,    \* the Router objects, by identity 1..Len(routers)
    matchers,   \* the RegisterMatcher objects: (method, pattern) -> Handler
    held,       \* the Routers the program holds a reference to
    panicked,   \* "" while running, else the message of the panic
    segments,   \* history: per Router, the patterns given to Group from the root down
    call,       \* the setup call made last, with its arguments
    budget,     \* the number of setup calls the model still makes
    contexts,   \* the ctx objects ever created by a pool's New
    pools,      \* per Router, the ctx objects sitting in its sync.Pool
    pc,         \* per goroutine, its position in ServeHTTPC
    cur,        \* per goroutine, the dispatch in progress
    c,          \* the ctx object the Context operations act on
    w,          \* its http.ResponseWriter: the status codes written to it
    ret         \* the Context operation made last and what it returned

vars == <<routers, matchers, held, panicked, segments, call, budget,
          contexts, pools, pc, cur, c, w, ret>>

routerVars == <<routers, matchers, held, panicked, segments, call, budget>>
serveVars == <<contexts, pools, pc, cur>>
ctxVars == <<c, w, ret>>

----------------------------------------------------------------------------
(* Bounds of the model *)

MaxComposeCalls == 4
MaxPathCalls == 3
MaxNamedCalls == 4
MaxParams == 2
NumProcs == 2
MaxLateCalls == 5
MaxContexts == 2

(* Inputs *)

Middlewares == {"M1", "M2"}
Handlers == {"H1", "H2"}
Names == {"auth", "log"}
Empty == <<>>
Slash == <<"/">>
PathA == <<"/", "a">>
PathB == <<"/", "b">>
Bare == <<"a">>

NoHandler == <<"nil">>
NoNamed == [n \in {} |-> <<>>]

----------------------------------------------------------------------------
(* Handlers *)

Last(seq) == seq[Len(seq)]

Terminal(h) == <<"h", h>>

\* Middleware.ServeNext(next): the handler that runs m and then next.
ServeNext(m, next) == <<"mw", m, next>>

\* What running a composed handler executes, in order; every middleware
\* calls the handler it wraps.
RECURSIVE Exec(_)
Exec(handler) ==
    IF handler[1] = "mw" THEN <<handler[2]>> \o Exec(handler[3])
    ELSE <<handler[2]>>

\* Middlewares.BuildHandler: the last middleware wraps the handler first, so
\* the first one ends up outermost.
RECURSIVE BuildHandler(_, _)
BuildHandler(middlewares, handler) ==
    IF middlewares = <<>> THEN handler
    ELSE BuildHandler(SubSeq(middlewares, 1, Len(middlewares) - 1),
                      ServeNext(middlewares[Len(middlewares)], handler))

----------------------------------------------------------------------------
(* The state the setup operations transform *)

State == [routers |-> routers, matchers |-> matchers, held |-> held,
          panicked |-> panicked, segments |-> segments]

Panic(st, msg) == [st EXCEPT !.panicked = msg]

isRoot(st, r) == st.routers[r].router = r

\* A composition that wraps the parent's middlewares innermost.
RECURSIVE buildMiddlewaresInverted(_, _, _)
buildMiddlewaresInverted(st, r, handler) ==
    BuildHandler(st.routers[r].middlewares,
                 IF ~isRoot(st, r)
                 THEN buildMiddlewaresInverted(st, st.routers[r].router, handler)
                 ELSE handler)

\* Router.buildMiddlewares: the node's own middlewares wrap the handler, then
\* the parent's wrap the result, up to the root.
RECURSIVE buildMiddlewares(_, _, _)
buildMiddlewares(st, r, handler) ==
    LET own == BuildHandler(st.routers[r].middlewares, handler)
    IN  IF ~isRoot(st, r) THEN buildMiddlewares(st, st.routers[r].router, own)
        ELSE own

\* A Use that also wraps the handlers the matcher already holds.
UseOpRewraps(st, r, mws) ==
    LET rm == st.routers[r].rm
    IN  [st EXCEPT !.routers[r].middlewares = @ \o mws,
                   !.matchers[rm] = [k \in DOMAIN @ |-> BuildHandler(mws, @[k])]]

\* Router.Use
UseOp(st, r, mws) ==
    [st EXCEPT !.routers[r].middlewares = @ \o mws]

\* validatePattern: panics only for a non-empty pattern not starting with "/".
validatePattern(pattern) == ~(Len(pattern) > 0 /\ pattern[1] # "/")

allowedHTTPMethods ==
    {"GET", "HEAD", "POST", "PUT", "DELETE", "TRACE", "OPTIONS", "CONNECT", "PATCH"}

\* pathMatcher.prevalidation
prevalidation(method, pattern) ==
    IF Len(pattern) = 0 \/ pattern[1] # "/" THEN "path must begin with '/'"
    ELSE IF method \notin allowedHTTPMethods THEN "lion: invalid http method"
    ELSE ""

\* pathMatcher.Register on the matcher object rm
Register(st, rm, method, pattern, handler) ==
    IF prevalidation(method, pattern) # "" THEN Panic(st, prevalidation(method, pattern))
    ELSE LET old == st.matchers[rm]
             key == <<method, pattern>>
         IN  [st EXCEPT !.matchers[rm] =
                 [k \in DOMAIN old \cup {key} |-> IF k = key THEN handler ELSE old[k]]]

\* New: a root Router with its own matcher and a pool that creates contexts.
NewOp(st, mws) ==
    LET r == Len(st.routers) + 1
        nr == [router |-> r, rm |-> Len(st.matchers) + 1, pattern |-> <<>>,
               middlewares |-> <<>>, namedMiddlewares |-> NoNamed,
               registeredHandlers |-> <<>>, notFoundHandler |-> NoHandler,
               poolNew |-> TRUE]
    IN  UseOp([st EXCEPT !.routers = Append(@, nr),
                         !.matchers = Append(@, [k \in {} |-> NoHandler]),
                         !.held = @ \cup {r},
                         !.segments = Append(@, <<>>)], r, mws)

\* The pattern Group resolves for a child of r.
GroupPattern(st, r, pattern) ==
    IF pattern = Slash /\ st.routers[r].pattern # Slash THEN st.routers[r].pattern
    ELSE st.routers[r].pattern \o pattern

\* Router.Group; keep says whether the caller gets the new Router (Mount
\* keeps it to itself).
GroupOp(st, r, pattern, mws, keep) ==
    LET p == GroupPattern(st, r, pattern)
        n == Len(st.routers) + 1
        nr == [router |-> r, rm |-> st.routers[r].rm, pattern |-> p,
               middlewares |-> <<>>, namedMiddlewares |-> NoNamed,
               registeredHandlers |-> <<>>, notFoundHandler |-> NoHandler,
               poolNew |-> FALSE]
    IN  IF ~validatePattern(p) THEN Panic(st, "path must start with '/'")
        ELSE UseOp([st EXCEPT !.routers = Append(@, nr),
                              !.held = IF keep THEN @ \cup {n} ELSE @,
                              !.segments = Append(@, Append(st.segments[r], pattern))],
                   n, mws)

\* A resolution that appends every route pattern, "/" included.
HandlePatternAppends(st, r, pattern) == st.routers[r].pattern \o pattern

\* The absolute pattern Handle registers a route of r under.
HandlePattern(st, r, pattern) ==
    IF ~isRoot(st, r) /\ pattern = Slash THEN st.routers[r].pattern
    ELSE st.routers[r].pattern \o pattern

\* A Handle that records the route on the parent of a group as well.
HandleOpRecordsOnParent(st, r, method, pattern, handler) ==
    IF ~validatePattern(pattern) THEN Panic(st, "path must start with '/'")
    ELSE LET p == HandlePattern(st, r, pattern)
             built == buildMiddlewares(st, r, handler)
             rec == [method |-> method, pattern |-> pattern, handler |-> built]
             up == [rec EXCEPT !.pattern = Last(st.segments[r]) \o pattern]
             st1 == [st EXCEPT !.routers[r].registeredHandlers = Append(@, rec)]
             st2 == IF isRoot(st, r) THEN st1
                    ELSE [st1 EXCEPT
                             !.routers[st.routers[r].router].registeredHandlers =
                                 Append(@, up)]
         IN  Register(st2, st.routers[st.routers[r].router].rm, method, p, built)

\* Router.Handle: the record is appended before the matcher validates.
HandleOp(st, r, method, pattern, handler) ==
    IF ~validatePattern(pattern) THEN Panic(st, "path must start with '/'")
    ELSE LET p == HandlePattern(st, r, pattern)
             built == buildMiddlewares(st, r, handler)
             rec == [method |-> method, pattern |-> pattern, handler |-> built]
             st1 == [st EXCEPT !.routers[r].registeredHandlers = Append(@, rec)]
         IN  Register(st1, st.routers[st.routers[r].router].rm, method, p, built)

\* A replay that hands on the terminal handler of each record alone.
RECURSIVE ReplayTerminalOnly(_, _, _)
ReplayTerminalOnly(st, sub, recs) ==
    IF recs = <<>> \/ st.panicked # "" THEN st
    ELSE ReplayTerminalOnly(
             HandleOp(st, sub, recs[1].method, recs[1].pattern,
                      Terminal(Last(Exec(recs[1].handler)))),
             sub, Tail(recs))

\* The loop of Mount over the records of the mounted Router; a panic ends it.
RECURSIVE Replay(_, _, _)
Replay(st, sub, recs) ==
    IF recs = <<>> \/ st.panicked # "" THEN st
    ELSE Replay(HandleOp(st, sub, recs[1].method, recs[1].pattern, recs[1].handler),
                sub, Tail(recs))

\* Router.Mount
MountOp(st, r, pattern, router, mws) ==
    LET st1 == GroupOp(st, r, pattern, mws, FALSE)
    IN  IF st1.panicked # "" THEN st1
        ELSE Replay(st1, Len(st1.routers), st.routers[router].registeredHandlers)

hasNamed(st, r, name) == name \in DOMAIN st.routers[r].namedMiddlewares

\* A Define that replaces what the name held.
DefineOverwrites(st, r, name, mws) ==
    LET old == st.routers[r].namedMiddlewares
    IN  [st EXCEPT !.routers[r].namedMiddlewares =
            [n \in DOMAIN old \cup {name} |-> IF n = name THEN mws ELSE old[n]]]

\* Router.Define
DefineOp(st, r, name, mws) ==
    LET old == st.routers[r].namedMiddlewares
        prev == IF name \in DOMAIN old THEN old[name] ELSE <<>>
    IN  [st EXCEPT !.routers[r].namedMiddlewares =
            [n \in DOMAIN old \cup {name} |-> IF n = name THEN prev \o mws ELSE old[n]]]

\* A UseNamed that lets an unknown name pass.
RECURSIVE UseNamedLenient(_, _, _)
UseNamedLenient(st, r, name) ==
    IF hasNamed(st, r, name) THEN UseOp(st, r, st.routers[r].namedMiddlewares[name])
    ELSE IF ~isRoot(st, r) THEN UseNamedLenient(st, st.routers[r].router, name)
    ELSE st

\* Router.UseNamed: the parent's UseNamed is called on the parent.
RECURSIVE UseNamedOp(_, _, _)
UseNamedOp(st, r, name) ==
    IF hasNamed(st, r, name) THEN UseOp(st, r, st.routers[r].namedMiddlewares[name])
    ELSE IF ~isRoot(st, r) THEN UseNamedOp(st, st.routers[r].router, name)
    ELSE Panic(st, "Unknow named middlewares: " \o name)

\* Router.NotFoundHandler
NotFoundHandlerOp(st, r, handler) ==
    [st EXCEPT !.routers[r].notFoundHandler = handler]

----------------------------------------------------------------------------
(* The setup actions *)

Commit(st) ==
    /\ routers' = st.routers
    /\ matchers' = st.matchers
    /\ held' = st.held
    /\ panicked' = st.panicked
    /\ segments' = st.segments

Running == panicked = ""

\* The record of a call; an argument the operation does not take is blank.
Call(op, r, method, pattern, h, mws, router, name) ==
    [op |-> op, r |-> r, method |-> method, pattern |-> pattern, h |-> h,
     mws |-> mws, router |-> router, name |-> name]

\* After r := New(), with n setup calls to come and no request served yet.
Start(n) ==
    LET st0 == [routers |-> <<>>, matchers |-> <<>>, held |-> {}, panicked |-> "",
                segments |-> <<>>]
        st == NewOp(st0, <<>>)
    IN  /\ routers = st.routers
        /\ matchers = st.matchers
        /\ held = st.held
        /\ panicked = st.panicked
        /\ segments = st.segments
        /\ call = Call("New", 1, "", <<>>, "", <<>>, 0, "")
        /\ budget = n
        /\ contexts = <<>> /\ pools = <<>> /\ pc = <<>> /\ cur = <<>>
        /\ c = <<>> /\ w = <<>> /\ ret = <<>>

\* A setup call; a panic ends the program.
Do(cl, op) ==
    /\ Running /\ budget > 0
    /\ budget' = budget - 1
    /\ call' = cl
    /\ \E st \in {op} : Commit(st)
    /\ UNCHANGED <<serveVars, ctxVars>>

Group(r, pattern, mws) ==
    Do(Call("Group", r, "", pattern, "", mws, 0, ""),
       GroupOp(State, r, pattern, mws, TRUE))

Use(r, mws) ==
    Do(Call("Use", r, "", <<>>, "", mws, 0, ""), UseOp(State, r, mws))

Handle(r, method, pattern, h) ==
    Do(Call("Handle", r, method, pattern, h, <<>>, 0, ""),
       HandleOp(State, r, method, pattern, Terminal(h)))

Mount(r, pattern, router, mws) ==
    Do(Call("Mount", r, "", pattern, "", mws, router, ""),
       MountOp(State, r, pattern, router, mws))

Define(r, name, mws) ==
    Do(Call("Define", r, "", <<>>, "", mws, 0, name), DefineOp(State, r, name, mws))

UseNamed(r, name) ==
    Do(Call("UseNamed", r, "", <<>>, "", <<>>, 0, name), UseNamedOp(State, r, name))

New(mws) ==
    Do(Call("New", Len(routers) + 1, "", <<>>, "", mws, 0, ""), NewOp(State, mws))

NotFoundHandler(r, h) ==
    Do(Call("NotFoundHandler", r, "", <<>>, h, <<>>, 0, ""),
       NotFoundHandlerOp(State, r, Terminal(h)))

----------------------------------------------------------------------------
(* Composition of middlewares: Group, Use, Handle, Mount, New *)

MwArgs == {<<>>, <<"M1">>}

InitCompose == Start(MaxComposeCalls)

NextCompose ==
    \/ \E r \in held, mws \in MwArgs : Group(r, PathA, mws)
    \/ \E r \in held, m \in Middlewares : Use(r, <<m>>)
    \/ \E r \in held, p \in {Slash, PathA} : Handle(r, "GET", p, "H1")
    \/ \E r \in held, router \in held, mws \in MwArgs : Mount(r, PathA, router, mws)
    \/ \E mws \in MwArgs : New(mws)

SpecCompose == InitCompose /\ [][NextCompose]_vars

----------------------------------------------------------------------------
(* Resolution of patterns: Group, Handle, Mount *)

GroupPatterns == {Empty, Slash, PathA, Bare}
RoutePatterns == {Empty, Slash, PathB, Bare}
Methods == {"GET", "POST", "BREW"}

InitPaths == Start(MaxPathCalls)

NextPaths ==
    \/ \E r \in held, p \in GroupPatterns : Group(r, p, <<>>)
    \/ \E r \in held, m \in Methods, p \in RoutePatterns : Handle(r, m, p, "H1")
    \/ \E r \in held, router \in held, p \in GroupPatterns : Mount(r, p, router, <<>>)

SpecPaths == InitPaths /\ [][NextPaths]_vars

----------------------------------------------------------------------------
(* Named middlewares: Define, UseNamed, Use, Group *)

NamedArgs == {<<>>, <<"M1">>, <<"M2">>}

InitNamed == Start(MaxNamedCalls)

NextNamed ==
    \/ \E r \in held : Group(r, PathA, <<>>)
    \/ \E r \in held, name \in Names, mws \in NamedArgs : Define(r, name, mws)
    \/ \E r \in held, name \in Names : UseNamed(r, name)
    \/ \E r \in held, m \in Middlewares : Use(r, <<m>>)

SpecNamed == InitNamed /\ [][NextNamed]_vars

----------------------------------------------------------------------------
(* The Context *)

Keys == {"id", "n"}
Vals == {"1", "2"}
Codes == {200, 404}

\* newContextWithResReq; cap is the capacity of the params slice.
newContextWithResReq(parent, writer, req) ==
    [parent |-> parent, ResponseWriter |-> writer, req |-> req,
     params |-> <<>>, cap |-> 0, code |-> 0, statusWritten |-> FALSE]

\* newContext
newContext == newContextWithResReq("Background", "nil", "nil")

\* append of one element: a full slice moves to one of twice the capacity.
Grow(x) ==
    IF Len(x.params) < x.cap THEN x.cap ELSE IF x.cap = 0 THEN 1 ELSE 2 * x.cap

\* ctx.AddParam
AddParamOp(x, key, val) ==
    [x EXCEPT !.params = Append(@, [key |-> key, val |-> val]), !.cap = Grow(x)]

\* The scan of ParamOk, from the first parameter on: <<val, found>>.
RECURSIVE ParamOkFrom(_, _, _)
ParamOkFrom(params, i, key) ==
    IF i > Len(params) THEN <<"", FALSE>>
    ELSE IF params[i].key = key THEN <<params[i].val, TRUE>>
    ELSE ParamOkFrom(params, i + 1, key)

\* ctx.ParamOk
ParamOk(x, key) == ParamOkFrom(x.params, 1, key)

\* ctx.Param
Param(x, key) == ParamOk(x, key)[1]

\* ctx.indexOf: the scan runs from the last parameter down; 0 stands for -1.
RECURSIVE indexOfFrom(_, _, _)
indexOfFrom(params, i, key) ==
    IF i < 1 THEN 0
    ELSE IF params[i].key = key THEN i
    ELSE indexOfFrom(params, i - 1, key)

indexOf(x, key) == indexOfFrom(x.params, Len(x.params), key)

\* ctx.Remove, for a key that indexOf finds.
RemoveOp(x, key) ==
    LET i == indexOf(x, key)
    IN  [x EXCEPT !.params = SubSeq(@, 1, i - 1) \o SubSeq(@, i + 1, Len(@))]

\* ctx.WithStatus
WithStatusOp(x, code) == [x EXCEPT !.code = code]

\* A Reset that keeps the parameters.
ResetKeepsParams(x) ==
    [x EXCEPT !.parent = "nil", !.req = "nil", !.ResponseWriter = "nil",
              !.code = 0, !.statusWritten = FALSE]

\* ctx.Reset: params[:0] keeps the capacity.
ResetOp(x) ==
    [x EXCEPT !.params = <<>>, !.parent = "nil", !.req = "nil",
              !.ResponseWriter = "nil", !.code = 0, !.statusWritten = FALSE]

\* ctx.Clone
CloneOp(x) ==
    [newContext EXCEPT !.parent = x.parent, !.params = x.params, !.cap = x.cap,
                       !.req = x.req]

Return(op, arg, val) == [op |-> op, arg |-> arg, val |-> val]

\* A context made for a request, before any operation on it.
InitContext ==
    /\ c = newContextWithResReq("Background", "w", "req")
    /\ w = <<>>
    /\ ret = Return("newContextWithResReq", "", <<>>)
    /\ routers = <<>> /\ matchers = <<>> /\ held = {} /\ panicked = ""
    /\ segments = <<>> /\ budget = 0
    /\ call = Call("", 0, "", <<>>, "", <<>>, 0, "")
    /\ contexts = <<>> /\ pools = <<>> /\ pc = <<>> /\ cur = <<>>

CtxStep(x, out, r) ==
    /\ Running
    /\ c' = x /\ w' = out /\ ret' = r
    /\ UNCHANGED <<routerVars, serveVars>>

CtxPanic(msg, r) ==
    /\ Running
    /\ panicked' = msg /\ ret' = r
    /\ UNCHANGED <<routers, matchers, held, segments, call, budget, serveVars, c, w>>

AddParam(key, val) ==
    /\ Len(c.params) < MaxParams
    /\ CtxStep(AddParamOp(c, key, val), w, Return("AddParam", key, <<>>))

GetParamOk(key) == CtxStep(c, w, Return("ParamOk", key, ParamOk(c, key)))

GetParam(key) == CtxStep(c, w, Return("Param", key, <<Param(c, key)>>))

Remove(key) ==
    IF indexOf(c, key) < 1
    THEN CtxPanic("Cannot remove unknown key", Return("Remove", key, <<>>))
    ELSE CtxStep(RemoveOp(c, key), w, Return("Remove", key, <<>>))

WithStatus(code) == CtxStep(WithStatusOp(c, code), w, Return("WithStatus", "", <<>>))

\* A writeHeader that does not look at the written flag.
writeHeaderOutAlways(x, out) == Append(out, x.code)

\* ctx.writeHeader: the status goes to the ResponseWriter once.
writeHeaderOut(x, out) == IF ~x.statusWritten THEN Append(out, x.code) ELSE out
writeHeaderOp(x) == [x EXCEPT !.statusWritten = TRUE]

\* ctx.raw, reached from JSON, XML and String when the data marshals; the
\* embedded ResponseWriter of a reset context is nil.
Emit(kind) ==
    IF c.ResponseWriter = "nil"
    THEN CtxPanic("nil pointer dereference", Return(kind, "", <<>>))
    ELSE CtxStep(writeHeaderOp(c), writeHeaderOut(c, w), Return(kind, "", <<"nil">>))

\* JSON and XML return the error of Marshal and write nothing.
MarshalFails(kind) == CtxStep(c, w, Return(kind, "", <<"err">>))

\* ctx.Error with an HTTPError: WithStatus(herr.Status()), then String.
ErrorHTTP(code) ==
    IF c.ResponseWriter = "nil"
    THEN /\ Running
         /\ c' = WithStatusOp(c, code)
         /\ panicked' = "nil pointer dereference" /\ ret' = Return("Error", "", <<>>)
         /\ UNCHANGED <<routers, matchers, held, segments, call, budget, serveVars, w>>
    ELSE CtxStep(writeHeaderOp(WithStatusOp(c, code)),
                 writeHeaderOut(WithStatusOp(c, code), w), Return("Error", "", <<"nil">>))

Reset == CtxStep(ResetOp(c), w, Return("Reset", "", <<>>))

Clone == CtxStep(c, w, Return("Clone", "", CloneOp(c)))

NextContext ==
    \/ \E key \in Keys, val \in Vals : AddParam(key, val)
    \/ \E key \in Keys : GetParamOk(key)
    \/ \E key \in Keys : GetParam(key)
    \/ \E key \in Keys : Remove(key)
    \/ \E code \in Codes : WithStatus(code)
    \/ \E kind \in {"JSON", "XML", "String", "Error"} : Emit(kind)
    \/ \E kind \in {"JSON", "XML"} : MarshalFails(kind)
    \/ \E code \in Codes : ErrorHTTP(code)
    \/ Reset
    \/ Clone

SpecContext == InitContext /\ [][NextContext]_vars

----------------------------------------------------------------------------
(* Middlewares added after routes: Use, Define, UseNamed and Handle *)

InitLate == Start(MaxLateCalls)

NextLate ==
    \/ \E r \in held : Group(r, PathA, <<>>)
    \/ \E r \in held : Use(r, <<"M1">>)
    \/ \E r \in held : Define(r, "auth", <<"M2">>)
    \/ \E r \in held : UseNamed(r, "auth")
    \/ \E r \in held, p \in {Slash, PathB} : Handle(r, "GET", p, "H1")

SpecLate == InitLate /\ [][NextLate]_vars

----------------------------------------------------------------------------
(* Serving: ServeHTTPC on the Routers of a tree that setup has built *)

Procs == 1..NumProcs
Path7 == <<"/", "a", "/", "7">>

\* Whether a registered pattern resolves a path: the same text, or the text
\* up to a last segment ":id" that takes one character of the path.
Resolves(pattern, path) ==
    \/ pattern = path
    \/ /\ Len(pattern) >= 3 /\ Len(path) = Len(pattern) - 2
       /\ SubSeq(pattern, Len(pattern) - 2, Len(pattern)) = <<":", "i", "d">>
       /\ SubSeq(pattern, 1, Len(pattern) - 3) = SubSeq(path, 1, Len(path) - 1)

\* pathMatcher.Match: the handler stored for the method and a pattern that
\* resolves the path, with the parameters the match adds to the context.
Match(m, method, path) ==
    LET keys == {k \in DOMAIN m : k[1] = method /\ Resolves(k[2], path)}
    IN  IF keys = {} THEN [handler |-> NoHandler, params |-> <<>>]
        ELSE LET k == CHOOSE k \in keys : TRUE
             IN  [handler |-> m[k],
                  params |-> IF k[2] = path THEN <<>>
                             ELSE <<[key |-> "id", val |-> path[Len(path)]]>>]

\* root.Use(M1); g := root.Group("/a", M2); g.Get("/:id", H1), and
\* root.NotFoundHandler(nf) unless nf is nil.
Served(nf) ==
    LET st0 == NewOp([routers |-> <<>>, matchers |-> <<>>, held |-> {},
                      panicked |-> "", segments |-> <<>>], <<"M1">>)
        st1 == GroupOp(st0, 1, PathA, <<"M2">>, TRUE)
        st2 == HandleOp(st1, 2, "GET", <<"/", ":", "i", "d">>, Terminal("H1"))
    IN  IF nf = NoHandler THEN st2 ELSE NotFoundHandlerOp(st2, 1, nf)

\* The locals of a goroutine in ServeHTTPC: the Router, the context it got,
\* the handler the matcher returned, and what has run.
NoDispatch == [r |-> 0, ctx |-> 0, handler |-> NoHandler, ran |-> <<>>]

InitServe ==
    \E nf \in {NoHandler, Terminal("NF")} :
        /\ routers = Served(nf).routers
        /\ matchers = Served(nf).matchers
        /\ held = Served(nf).held
        /\ panicked = ""
        /\ segments = Served(nf).segments
        /\ call = Call("Handle", 2, "GET", <<"/", ":", "i", "d">>, "H1", <<>>, 0, "")
        /\ budget = 0
        /\ contexts = <<>>
        /\ pools = [r \in 1..Len(Served(nf).routers) |-> {}]
        /\ pc = [p \in Procs |-> "idle"]
        /\ cur = [p \in Procs |-> NoDispatch]
        /\ c = <<>> /\ w = <<>> /\ ret = <<>>

\* A Get that leaves the context in the pool.
PoolGetLeaves(pool, x) == pool

\* sync.Pool.Get taking the pooled object x
PoolGet(pool, x) == pool \ {x}

\* sync.Pool.Put
PoolPut(pool, x) == pool \cup {x}

Step(p, to, dispatch) ==
    /\ pc' = [pc EXCEPT ![p] = to]
    /\ cur' = [cur EXCEPT ![p] = dispatch]
    /\ UNCHANGED <<routerVars, ctxVars>>

Begin(r, x) == [NoDispatch EXCEPT !.r = r, !.ctx = x]

\* ServeHTTPC, r.pool.Get() returning a pooled context
AcquirePooled(p, r) ==
    /\ pc[p] \in {"idle", "done"}
    /\ \E x \in pools[r] :
          /\ pools' = [pools EXCEPT ![r] = PoolGet(@, x)]
          /\ contexts' = contexts
          /\ Step(p, "acquired", Begin(r, x))

\* ServeHTTPC, r.pool.Get() finding the pool empty and calling its New
AcquireNew(p, r) ==
    /\ pc[p] \in {"idle", "done"}
    /\ pools[r] = {}
    /\ routers[r].poolNew
    /\ Len(contexts) < MaxContexts
    /\ contexts' = Append(contexts, newContext)
    /\ pools' = pools
    /\ Step(p, "acquired", Begin(r, Len(contexts) + 1))

\* ServeHTTPC, r.pool.Get() returning nil: the pool has no New, and the type
\* assertion panics.
AcquireNil(p, r) ==
    /\ pc[p] \in {"idle", "done"}
    /\ ~routers[r].poolNew
    /\ UNCHANGED <<contexts, pools>>
    /\ Step(p, "panicked", Begin(r, 0))

\* ctx.parent = c, and the matcher's Match on the request
Resolve(p, method, path, parent) ==
    /\ pc[p] = "acquired"
    /\ LET d == cur[p]
           m == Match(matchers[routers[routers[d.r].router].rm], method, path)
       IN  /\ contexts' = [contexts EXCEPT ![d.ctx].parent = parent,
                                           ![d.ctx].params = @ \o m.params,
                                           ![d.ctx].cap =
                                               IF m.params = <<>> THEN @
                                               ELSE Grow(contexts[d.ctx])]
           /\ pools' = pools
           /\ Step(p, IF m.handler # NoHandler THEN "matched" ELSE "unmatched",
                   [d EXCEPT !.handler = m.handler])

\* What a handler leaves of its context when it returns: it staged a status
\* code, or did not.
HandlerEffects(x) == {x, WithStatusOp(x, 404)}

\* h.ServeHTTPC(ctx, w, req) returning
ServeMatched(p) ==
    /\ pc[p] = "matched"
    /\ \E x \in HandlerEffects(contexts[cur[p].ctx]) :
          contexts' = [contexts EXCEPT ![cur[p].ctx] = x]
    /\ pools' = pools
    /\ Step(p, "returned", [cur[p] EXCEPT !.ran = Exec(cur[p].handler)])

\* A notFound that never looks for the registered handler.
notFoundHandlerIgnored(r) == NoHandler

\* Router.notFound: the handler it looks for, r.router.notFoundHandler
notFoundHandlerOf(r) == routers[routers[r].router].notFoundHandler

\* Router.notFound returning
ServeNotFound(p) ==
    /\ pc[p] = "unmatched"
    /\ LET nf == notFoundHandlerOf(cur[p].r)
       IN  IF nf # NoHandler
           THEN /\ \E x \in HandlerEffects(contexts[cur[p].ctx]) :
                      contexts' = [contexts EXCEPT ![cur[p].ctx] = x]
                /\ pools' = pools
                /\ Step(p, "returned", [cur[p] EXCEPT !.ran = Exec(nf)])
           ELSE /\ UNCHANGED <<contexts, pools>>
                /\ Step(p, "returned", [cur[p] EXCEPT !.ran = <<"http.NotFound">>])

\* The handler, or the not-found handler, panicking: ServeHTTPC is left.
HandlerPanics(p) ==
    /\ \/ pc[p] = "matched"
       \/ /\ pc[p] = "unmatched"
          /\ notFoundHandlerOf(cur[p].r) # NoHandler
    /\ UNCHANGED <<contexts, pools>>
    /\ Step(p, "panicked", cur[p])

\* ctx.reset()
ResetContext(p) ==
    /\ pc[p] = "returned"
    /\ contexts' = [contexts EXCEPT ![cur[p].ctx] = ResetOp(@)]
    /\ pools' = pools
    /\ Step(p, "reset", cur[p])

\* r.pool.Put(ctx) and the return of ServeHTTPC; of the dispatch, the handler
\* that served it stays on record.
Release(p) ==
    /\ pc[p] = "reset"
    /\ pools' = [pools EXCEPT ![cur[p].r] = PoolPut(@, cur[p].ctx)]
    /\ contexts' = contexts
    /\ Step(p, "done", [NoDispatch EXCEPT !.handler = cur[p].handler])

\* sync.Pool dropping a pooled object, as it may at any time.
PoolDrops(r, x) ==
    /\ x \in pools[r]
    /\ pools' = [pools EXCEPT ![r] = @ \ {x}]
    /\ UNCHANGED <<routerVars, ctxVars, contexts, pc, cur>>

Paths == {Path7, PathB}

NextServe ==
    \/ \E p \in Procs, r \in held : AcquirePooled(p, r)
    \/ \E p \in Procs, r \in held : AcquireNew(p, r)
    \/ \E p \in Procs, r \in held : AcquireNil(p, r)
    \/ \E p \in Procs, path \in Paths : Resolve(p, "GET", path, "TODO")
    \/ \E p \in Procs : ServeMatched(p)
    \/ \E p \in Procs : ServeNotFound(p)
    \/ \E p \in Procs : HandlerPanics(p)
    \/ \E p \in Procs : ResetContext(p)
    \/ \E p \in Procs : Release(p)
    \/ \E r \in held, x \in 1..Len(contexts) : PoolDrops(r, x)

SpecServe == InitServe /\ [][NextServe]_vars

\* A goroutine that is in ServeHTTPC past its handler runs on to the end.
SpecServeFair ==
    /\ SpecServe
    /\ \A p \in Procs : WF_vars(ResetContext(p)) /\ WF_vars(Release(p))

----------------------------------------------------------------------------
(* What the claims speak of *)

Ok(op) == call.op = op /\ panicked = ""

\* The Routers from the root down to r.
RECURSIVE Chain(_)
Chain(r) == IF routers[r].router = r THEN <<r>> ELSE Append(Chain(routers[r].router), r)

\* The middlewares of the Routers of a chain, one Router after the other.
RECURSIVE MwsAlong(_)
MwsAlong(chain) ==
    IF chain = <<>> THEN <<>>
    ELSE routers[chain[1]].middlewares \o MwsAlong(Tail(chain))

Matcher(r) == matchers[routers[r].rm]

\* C1: right after Handle(method, pattern, h) on a Router, a request the
\* matcher resolves to that route executes the middlewares of the root first
\* and of the Router last, each Router's in the order of their registration,
\* and then h.
C1_AncestorsFirst ==
    Ok("Handle") =>
        LET key == <<call.method, HandlePattern(State, call.r, call.pattern)>>
        IN  /\ key \in DOMAIN Matcher(call.r)
            /\ Exec(Matcher(call.r)[key]) = MwsAlong(Chain(call.r)) \o <<call.h>>

\* A route registered on a child holding two different middlewares, under a
\* parent holding one.
C1_Witness ==
    /\ Ok("Handle")
    /\ routers[call.r].router # call.r
    /\ Len(routers[call.r].middlewares) = 2
    /\ routers[call.r].middlewares[1] # routers[call.r].middlewares[2]
    /\ Len(routers[routers[call.r].router].middlewares) >= 1

\* The group Mount created, and the key Mount registered record i of the
\* mounted Router under.
Sub == Len(routers)
Mounted == routers[call.router].registeredHandlers
MountKey(i) == <<Mounted[i].method, HandlePattern(State, Sub, Mounted[i].pattern)>>
Live(i) == \A j \in (i + 1)..Len(Mounted) : MountKey(j) # MountKey(i)

ClaimedMountPattern(q) ==
    IF q = Slash THEN routers[call.r].pattern \o call.pattern
    ELSE routers[call.r].pattern \o call.pattern \o q

C4_MountRegistersUnderPrefix ==
    (call.op = "Mount" /\ call.pattern # <<>> /\ call.pattern[1] = "/") =>
        /\ panicked = ""
        /\ \A i \in 1..Len(Mounted) :
               <<Mounted[i].method, ClaimedMountPattern(Mounted[i].pattern)>>
                   \in DOMAIN Matcher(call.r)
        /\ Len(routers[Sub].registeredHandlers) = Len(Mounted)

RECURSIVE Concat(_)
Concat(seqs) == IF seqs = <<>> THEN <<>> ELSE seqs[1] \o Concat(Tail(seqs))

\* A segment that starts with "/" and is not "/" itself.
Proper(seg) == seg # <<>> /\ seg[1] = "/" /\ seg # Slash

\* A Handle on the innermost group of a chain of proper segments.
OnProperChain ==
    /\ Ok("Handle")
    /\ segments[call.r] # <<>>
    /\ \A i \in 1..Len(segments[call.r]) : Proper(segments[call.r][i])

\* C9 as amended: on the innermost group of a chain of segments s1..sn, a
\* route of pattern q other than "/" is registered under s1 + ... + sn + q,
\* and a route of pattern "/" under s1 + ... + sn.
C9_ChainConcatenates ==
    OnProperChain =>
        <<call.method,
          IF call.pattern = Slash THEN Concat(segments[call.r])
          ELSE Concat(segments[call.r]) \o call.pattern>> \in DOMAIN Matcher(call.r)

\* C9 as claimed: every route pattern q is registered under s1 + ... + sn + q.
C9_ChainConcatenatesAnyRoute ==
    OnProperChain =>
        <<call.method, Concat(segments[call.r]) \o call.pattern>>
            \in DOMAIN Matcher(call.r)

\* A route "/b" registered on the second group of a chain of two.
C9_Witness ==
    /\ OnProperChain
    /\ Len(segments[call.r]) = 2
    /\ call.pattern = PathB

\* C10: Group("/") on a Router that is not the root yields a child with the
\* Router's own pattern P, and Handle(method, "/", h) on a Router that is not
\* the root registers the route under exactly P.
C10_RootMarkerNotDuplicated ==
    /\ (Ok("Group") /\ call.pattern = Slash /\ routers[call.r].router # call.r) =>
           routers[Sub].pattern = routers[call.r].pattern
    /\ (/\ call.op = "Handle" /\ call.pattern = Slash
        /\ routers[call.r].router # call.r
        /\ call.method \in allowedHTTPMethods) =>
           /\ panicked = ""
           /\ <<call.method, routers[call.r].pattern>> \in DOMAIN Matcher(call.r)

\* The nearest Router, from r up to the root, that defines name; 0 if none.
RECURSIVE Definer(_, _)
Definer(r, name) ==
    IF name \in DOMAIN routers[r].namedMiddlewares THEN r
    ELSE IF routers[r].router = r THEN 0
    ELSE Definer(routers[r].router, name)

\* C2: when Y does not define the name and its nearest ancestor defining it
\* is X with sequence S, Y.UseNamed(name) makes Y's middlewares its previous
\* ones followed by S and leaves the middlewares of every other Router, X
\* included, as they were.
C2_UseNamedAppendsToCaller ==
    [][(/\ call'.op = "UseNamed"
        /\ Definer(call'.r, call'.name) \notin {0, call'.r})
       => LET y == call'.r
              s == routers[Definer(y, call'.name)].namedMiddlewares[call'.name]
          IN  /\ routers'[y].middlewares = routers[y].middlewares \o s
              /\ \A n \in 1..Len(routers) :
                     n # y => routers'[n].middlewares = routers[n].middlewares]_vars

\* C7: after Reset a Context has no parameters, a written flag of false, a
\* staged status code of 0 and no parent link, whatever was done to it before.
C7_ResetClears ==
    (ret.op = "Reset" /\ panicked = "") =>
        /\ c.params = <<>>
        /\ c.statusWritten = FALSE
        /\ c.code = 0
        /\ c.parent = "nil"

\* A Reset of a context that held two parameters and whose status had been
\* written.
C7_Witness ==
    /\ ret.op = "Reset" /\ panicked = ""
    /\ c.cap >= 2
    /\ w # <<>>

\* The value of the parameter added last under key, among several.
RECURSIVE LastAdded(_, _)
LastAdded(params, key) ==
    IF params[Len(params)].key = key THEN params[Len(params)].val
    ELSE LastAdded(SubSeq(params, 1, Len(params) - 1), key)

\* C8: with several parameters of the same key, ParamOk(key) and Param(key)
\* return the value of the one added last.
C8_LastWriteWins ==
    (/\ ret.op \in {"ParamOk", "Param"}
     /\ Cardinality({i \in 1..Len(c.params) : c.params[i].key = ret.arg}) >= 2) =>
        ret.val[1] = LastAdded(c.params, ret.arg)

\* A dispatch that has acquired a context and not put it back.
Holding(p) ==
    /\ pc[p] \in {"acquired", "matched", "unmatched", "returned", "reset", "panicked"}
    /\ cur[p].ctx # 0

\* C5: under every interleaving of dispatches, no Context is held by two
\* dispatches at once: from a dispatch's acquire to its release no other
\* dispatch acquires the same Context, and a held Context is in no pool.
C5_NoContextHeldTwice ==
    /\ \A p, q \in Procs :
           (p # q /\ Holding(p) /\ Holding(q)) => cur[p].ctx # cur[q].ctx
    /\ \A p \in Procs : \A r \in 1..Len(pools) :
           Holding(p) => cur[p].ctx \notin pools[r]

\* Two dispatches in flight at once, one of them on a context that served an
\* earlier request and came back out of the pool.
C5_Witness ==
    /\ pc[1] = "acquired" /\ pc[2] = "unmatched"
    /\ cur[1].r = cur[2].r
    /\ contexts[cur[1].ctx].cap > 0

\* The state Reset leaves a context in.
IsReset(x) == x.params = <<>> /\ x.parent = "nil" /\ x.statusWritten = FALSE

\* C6: a dispatch whose handler or not-found path has returned goes on to
\* reset its Context and to put it into the pool, on both paths; the step
\* that ends it leaves the Context reset and pooled; and every Context in a
\* pool is reset: no parameters, no parent, written flag false.
C6_ReturnedContextsAreReset ==
    /\ [](\A r \in 1..Len(pools) : \A x \in pools[r] : IsReset(contexts[x]))
    /\ [][\A p \in Procs :
            (pc[p] # "done" /\ pc'[p] = "done") =>
                /\ pc[p] = "reset"
                /\ IsReset(contexts'[cur[p].ctx])
                /\ cur[p].ctx \in pools'[cur[p].r]]_vars
    /\ \A p \in Procs : (pc[p] = "returned") ~> (pc[p] = "done")

\* A matched dispatch and a not-found dispatch both finished, their contexts
\* pooled, the matched one having carried a parameter.
C6_Witness ==
    /\ pc[1] = "done" /\ cur[1].handler # NoHandler
    /\ pc[2] = "done" /\ cur[2].handler = NoHandler
    /\ Cardinality(pools[1]) = 2
    /\ \E x \in pools[1] : contexts[x].cap > 0

\* The root of the tree a Router is in.
RootOf(r) == Chain(r)[1]

\* C11: when the matcher resolves no handler for a request, the not-found
\* handler registered on the root is what runs, once, and the default
\* response is not produced; with none registered the default response is
\* produced; and the dispatch is not aborted, unless the registered handler
\* itself panics.
C11_NotFoundHook ==
    /\ [](\A p \in Procs :
            (pc[p] \in {"returned", "reset"} /\ cur[p].handler = NoHandler) =>
                IF routers[RootOf(cur[p].r)].notFoundHandler # NoHandler
                THEN cur[p].ran = Exec(routers[RootOf(cur[p].r)].notFoundHandler)
                ELSE cur[p].ran = <<"http.NotFound">>)
    /\ [][\A p \in Procs :
            (pc[p] = "unmatched" /\ pc'[p] # "unmatched") =>
                \/ pc'[p] = "returned"
                \/ routers[RootOf(cur[p].r)].notFoundHandler # NoHandler]_vars

\* An unmatched request answered by the registered not-found handler while
\* a matched one has been answered by its route.
C11_Witness ==
    /\ pc[1] = "returned" /\ cur[1].handler = NoHandler /\ cur[1].ran = <<"NF">>
    /\ pc[2] = "returned" /\ cur[2].handler # NoHandler

\* What a Router holds under a name; nothing when the name is not defined.
Named(rs, r, name) ==
    IF name \in DOMAIN rs[r].namedMiddlewares THEN rs[r].namedMiddlewares[name]
    ELSE <<>>

\* C12: every Define(name, mws) on a Router leaves under the name what was
\* there followed by mws, so that the name holds the lists of all its Define
\* calls in call order; nothing held before is discarded, and the sequences
\* under other names, and on other Routers, stay as they were.
C12_DefineAccumulates ==
    [][call'.op = "Define" =>
          /\ call'.name \in DOMAIN routers'[call'.r].namedMiddlewares
          /\ Named(routers', call'.r, call'.name)
                = Named(routers, call'.r, call'.name) \o call'.mws
          /\ \A n \in 1..Len(routers) :
                 /\ DOMAIN routers'[n].namedMiddlewares
                      = DOMAIN routers[n].namedMiddlewares
                          \cup (IF n = call'.r THEN {call'.name} ELSE {})
                 /\ \A name \in DOMAIN routers[n].namedMiddlewares :
                        (n # call'.r \/ name # call'.name) =>
                            routers'[n].namedMiddlewares[name]
                              = routers[n].namedMiddlewares[name]]_vars

\* A second Define under a name that held one middleware, on a Router that
\* also defines another name.
C12_Witness ==
    /\ Ok("Define")
    /\ call.mws # <<>>
    /\ Len(Named(routers, call.r, call.name)) = 2
    /\ Named(routers, call.r, call.name)[1] # Named(routers, call.r, call.name)[2]
    /\ Cardinality(DOMAIN routers[call.r].namedMiddlewares) = 2

Emissions == {"JSON", "XML", "String", "Error"}

\* C13 as amended: within a request the status is committed to the
\* ResponseWriter at most once, by the first emission call that gets to write
\* (a JSON or XML call whose data does not marshal returns the error and
\* commits nothing); what is committed is the code staged at that call; the
\* written flag goes from false to true with that commit and neither goes
\* back nor lets a second commit through before Reset.
C13_StatusCommittedOnce ==
    /\ [](Len(w) <= 1 /\ (c.statusWritten => Len(w) = 1))
    /\ [][/\ (c.statusWritten /\ ret'.op # "Reset") => (c'.statusWritten /\ w' = w)
          /\ (w' # w) =>
                /\ ret'.op \in Emissions
                /\ ~c.statusWritten /\ c'.statusWritten
                /\ w' = Append(w, c'.code)
          /\ (ret'.op \in Emissions /\ ret'.val = <<"nil">>) => c'.statusWritten]_vars

\* C13 as claimed: the first call to an emission helper commits the status,
\* so that after any such call the status has been committed exactly once
\* and the written flag is true.
C13_CommittedByFirstCall ==
    (ret.op \in Emissions /\ panicked = "") => (c.statusWritten /\ Len(w) = 1)

\* A JSON emission after the status was committed and another code staged:
\* the ResponseWriter still holds the one status committed first.
C13_Witness ==
    /\ ret.op = "JSON" /\ ret.val = <<"nil">>
    /\ c.statusWritten
    /\ Len(w) = 1 /\ w[1] # c.code

\* C14: UseNamed(name) on a Router when neither it nor any Router above it,
\* the root included, defines the name panics with a message that names the
\* name, and leaves the middlewares of every Router as they were.
C14_UseNamedUnknownPanics ==
    [][(call'.op = "UseNamed" /\ Definer(call'.r, call'.name) = 0) =>
          /\ panicked' = "Unknow named middlewares: " \o call'.name
          /\ Len(routers') = Len(routers)
          /\ \A n \in 1..Len(routers) :
                 routers'[n].middlewares = routers[n].middlewares]_vars

\* UseNamed of an unknown name on a group, in a tree that holds middlewares
\* and defines another name.
C14_Witness ==
    /\ call.op = "UseNamed" /\ panicked # ""
    /\ routers[call.r].router # call.r
    /\ \E n \in 1..Len(routers) : routers[n].middlewares # <<>>
    /\ \E n \in 1..Len(routers) : routers[n].namedMiddlewares # NoNamed

StartsWithSlash(pattern) == Len(pattern) > 0 /\ pattern[1] = "/"

\* C15: Group(pattern) and Handle(method, pattern, h) with a pattern that
\* does not start with "/", the empty one included, panic, and then no
\* Router is created and no route is registered.
C15_PatternMustStartWithSlash ==
    [][(call'.op \in {"Group", "Handle"} /\ ~StartsWithSlash(call'.pattern)) =>
          /\ panicked' # ""
          /\ Len(routers') = Len(routers)
          /\ matchers' = matchers]_vars

\* C16: Handle with a method outside the supported verbs panics and
\* registers nothing: the matcher gains no entry and no Router's
\* registeredHandlers gains a record, so that every record of every Router
\* carries a supported method.
C16_UnsupportedMethodRegistersNothing ==
    /\ [](\A n \in 1..Len(routers) :
            \A i \in 1..Len(routers[n].registeredHandlers) :
                routers[n].registeredHandlers[i].method \in allowedHTTPMethods)
    /\ [][(call'.op = "Handle" /\ call'.method \notin allowedHTTPMethods) =>
              /\ panicked' # ""
              /\ matchers' = matchers
              /\ \A n \in 1..Len(routers) :
                     routers'[n].registeredHandlers = routers[n].registeredHandlers]_vars

\* C17: once the status has been written, WithStatus(code) changes neither
\* the code staged on the Context nor the status committed to the
\* ResponseWriter.
C17_WithStatusAfterWritten ==
    [][(c.statusWritten /\ ret'.op = "WithStatus") =>
          (c'.code = c.code /\ w' = w)]_vars

\* C18: Group("/") on the root yields a child whose pattern is the root's
\* followed by "/", and Handle(method, "/", h) on that child registers the
\* route under a pattern that starts with "/", without a panic.
C18_RootGroupSlash ==
    /\ (call.op = "Group" /\ call.pattern = Slash /\ routers[call.r].router = call.r) =>
           /\ panicked = ""
           /\ routers[Sub].pattern = routers[call.r].pattern \o Slash
    /\ (/\ call.op = "Handle" /\ call.pattern = Slash
        /\ call.method \in allowedHTTPMethods
        /\ segments[call.r] = <<Slash>>) =>
           /\ panicked = ""
           /\ \E key \in DOMAIN Matcher(call.r) :
                  key[1] = call.method /\ StartsWithSlash(key[2])

\* C19: ServeHTTPC on any Router of the tree, the root or one made by Group,
\* gets a Context, a fresh one when the Router's pool has none: no dispatch
\* is aborted before it holds a Context and goes on to the matcher.
C19_AcquireYieldsContext ==
    /\ \A p \in Procs : pc[p] = "panicked" => cur[p].ctx # 0
    /\ \A p \in Procs :
           pc[p] \in {"acquired", "matched", "unmatched", "returned", "reset"} =>
               cur[p].ctx \in 1..Len(contexts)

\* The Contexts in use: acquired by a dispatch and not put back.
InUse == {cur[p].ctx : p \in {q \in Procs : Holding(q)}}

\* C20: a dispatch whose handler or not-found handler panics still resets
\* its Context and puts it back, so that once every dispatch has ended no
\* Context is in use.
C20_PanicReturnsContext ==
    /\ \A p \in Procs :
           (pc[p] = "panicked" /\ cur[p].ctx # 0) =>
               IsReset(contexts[cur[p].ctx])
    /\ (\A p \in Procs : pc[p] \in {"idle", "done", "panicked"}) => InUse = {}

\* C21: a Use or UseNamed leaves every handler the matcher holds, and every
\* record of every Router, as composed when its route was registered, so the
\* middleware it adds never runs for a route registered before; and a route
\* registered afterwards on a Router runs all the middlewares then held by
\* the Routers from the root down to it, the added one included.
C21_ComposedAtRegistration ==
    /\ [][call'.op \in {"Use", "UseNamed"} =>
              /\ matchers' = matchers
              /\ \A n \in 1..Len(routers) :
                     routers'[n].registeredHandlers = routers[n].registeredHandlers]_vars
    /\ [](Ok("Handle") =>
            LET key == <<call.method, HandlePattern(State, call.r, call.pattern)>>
            IN  /\ key \in DOMAIN Matcher(call.r)
                /\ Exec(Matcher(call.r)[key])
                     = MwsAlong(Chain(call.r)) \o <<call.h>>)

\* A route registered on a group after UseNamed brought M2 into the tree,
\* next to a route of the same tree registered before it, which runs no M2.
C21_Witness ==
    /\ Ok("Handle")
    /\ routers[call.r].router # call.r
    /\ \E i \in 1..Len(MwsAlong(Chain(call.r))) : MwsAlong(Chain(call.r))[i] = "M2"
    /\ \E key \in DOMAIN Matcher(call.r) :
           \A i \in 1..Len(Exec(Matcher(call.r)[key])) :
               Exec(Matcher(call.r)[key])[i] # "M2"

\* The routes recorded on the groups made from Router r: the Router that
\* holds the record, and the record.
GroupRoutes(r) ==
    {<<n, i>> \in (1..Len(routers)) \X (1..MaxComposeCalls) :
        /\ n # r
        /\ routers[n].router = r
        /\ i <= Len(routers[n].registeredHandlers)}

\* C22: a Handle called by the program records its route on the Router it is
\* called on and on no other, so a route of a group is not among the records
\* of the Router the group was made from; and a Mount adds to the matcher
\* only the routes recorded on the mounted Router itself, each under the
\* prefix of the mount, and hands exactly those records to the new Router.
C22_MountReplaysOwnRoutesOnly ==
    /\ [][(call'.op = "Handle" /\ panicked' = "") =>
              /\ Len(routers') = Len(routers)
              /\ \A n \in 1..Len(routers) :
                     routers'[n].registeredHandlers =
                         IF n = call'.r
                         THEN Append(routers[n].registeredHandlers,
                                     Last(routers'[n].registeredHandlers))
                         ELSE routers[n].registeredHandlers]_vars
    /\ [][(call'.op = "Mount" /\ panicked' = "") =>
              LET sub == Len(routers')
                  recs == routers[call'.router].registeredHandlers
                  rm == routers[call'.r].rm
                  own == {<<recs[i].method,
                            IF recs[i].pattern = Slash THEN routers'[sub].pattern
                            ELSE routers'[sub].pattern \o recs[i].pattern>> :
                          i \in 1..Len(recs)}
              IN  /\ sub = Len(routers) + 1
                  /\ routers'[sub].router = call'.r
                  /\ DOMAIN matchers'[rm] = DOMAIN matchers[rm] \cup own
                  /\ \A m \in 1..Len(matchers) : m # rm => matchers'[m] = matchers[m]
                  /\ Len(matchers') = Len(matchers)
                  /\ Len(routers'[sub].registeredHandlers) = Len(recs)
                  /\ \A n \in 1..Len(routers) :
                         routers'[n].registeredHandlers = routers[n].registeredHandlers]_vars

\* A Mount of a Router that had a group holding a route before the Mount:
\* the route is in the matcher of the mounted Router, and the matcher of the
\* mounting Router does not hold it under the prefix of the mount.
C22_Witness ==
    /\ Ok("Mount")
    /\ \E g \in GroupRoutes(call.router) :
           LET rec == routers[g[1]].registeredHandlers[g[2]]
               own == HandlePattern(State, g[1], rec.pattern)
           IN  /\ g[1] # Sub
               /\ <<rec.method, own>> \in DOMAIN Matcher(call.router)
               /\ <<rec.method, routers[Sub].pattern \o own>> \notin DOMAIN Matcher(call.r)

====
